---- MODULE Spec2Model ----
(***************************************************************************)
(* Tablature engine of guitar-pro-tracks-builder.                          *)
(*                                                                         *)
(*   StringsView   (features/tracks/components/strings-view, two variants: *)
(*                  the voices variant and the flat-notes variant)         *)
(*     buildTabLines : track -> one line of TabNote cells per string       *)
(*   TablatureView (components/ui-extensions, graphical variant)           *)
(*     horizontal / wrapped layout, measure labels, tuplet brackets        *)
(*                                                                         *)
(* Encoding of the JavaScript values:                                      *)
(*   - an absent (undefined) array is a FALSE has* flag next to an empty   *)
(*     sequence; an absent string is "" (both are falsy in the source);    *)
(*   - an absent number (track.strings) is 0 next to a FALSE has* flag;    *)
(*     `||` treats a present 0 and an absent number alike;                 *)
(*   - fret is a string in every cell: "-" rest, "|" separator, digits     *)
(*     for a fretted note (the source mixes number | string);              *)
(*   - an absent tuplet is the empty tuple, a tuplet is <<enters, times>>; *)
(*   - indices named as in the source are 0-based, sequences are 1-based,  *)
(*     hence the "+ 1" at every subscript.                                 *)
(***************************************************************************)
EXTENDS Integers, Sequences, FiniteSets, TLC

\* ------------------------------------------------------------------ bounds
MaxMeasures == 9
MaxBeats == 2
MaxCells == 4
PitchMargin == 13
MaxTextStrings == 3

\* --------------------------------------------------------------- constants
DefaultStringCount == 6
DefaultMeasuresPerRow == 4
MeasuresPerRowOptions == {2, 4, 6, 8}

NoTuplet == <<>>

\* PitchValue: integer in [0,127]
MidiMax == 127

\* ------------------------------------------------------------ track inputs
Note(s, f, d, t) == [string |-> s, fret |-> f, duration |-> d, tuplet |-> t]

Voice(ns) == [hasNotes |-> TRUE, notes |-> ns]

VoiceNoNotes == [hasNotes |-> FALSE, notes |-> <<>>]

\* a beat that exposes voices[].notes[] only
VBeat(d, vs) ==
  [duration |-> d, hasVoices |-> TRUE, voices |-> vs, hasNotes |-> FALSE, notes |-> <<>>]

\* a beat that exposes a flat notes[] only
FBeat(d, ns) ==
  [duration |-> d, hasVoices |-> FALSE, voices |-> <<>>, hasNotes |-> TRUE, notes |-> ns]

\* a beat that exposes both shapes with the same notes in one voice
BBeat(d, ns) ==
  [duration |-> d, hasVoices |-> TRUE, voices |-> <<Voice(ns)>>, hasNotes |-> TRUE, notes |-> ns]

\* a beat with neither voices nor notes
EmptyBeat(d) ==
  [duration |-> d, hasVoices |-> FALSE, voices |-> <<>>, hasNotes |-> FALSE, notes |-> <<>>]

BeatKinds ==
  << EmptyBeat("quarter"),
     BBeat("quarter", <<Note(1, "0", "", NoTuplet)>>),
     VBeat("eighth", <<Voice(<<Note(2, "3", "", NoTuplet)>>),
                       Voice(<<Note(2, "5", "", NoTuplet), Note(1, "7", "quarter", NoTuplet)>>)>>),
     FBeat("", <<Note(1, "2", "half", NoTuplet), Note(2, "2", "", NoTuplet)>>),
     VBeat("quarter", <<VoiceNoNotes, Voice(<<Note(7, "9", "", NoTuplet), Note(0, "1", "", NoTuplet)>>)>>),
     BBeat("quarter", <<Note(1, "5", "eighth", <<3, 2>>), Note(3, "4", "", NoTuplet)>>) >>

NumBeatKinds == Len(BeatKinds)

\* the g-th beat of a track (0-based) for the beat pattern <<first, stride>>
BeatAt(bp, g) == BeatKinds[((bp[1] + g * bp[2]) % NumBeatKinds) + 1]

BeatPatterns == {0, 2, 4} \X {1}

\* measure i (0-based) has lp[(i mod Len(lp)) + 1] beats
LenPatterns ==
  { <<b>> : b \in 0 .. MaxBeats } \cup { <<0, MaxBeats>>, <<MaxBeats, 1>> }

BeatsIn(lp, i) == lp[(i % Len(lp)) + 1]

RECURSIVE BeatsBefore(_, _)
BeatsBefore(lp, i) == IF i = 0 THEN 0 ELSE BeatsBefore(lp, i - 1) + BeatsIn(lp, i - 1)

MkMeasure(lp, bp, i) ==
  [hasBeats |-> TRUE,
   beats |-> [j \in 1 .. BeatsIn(lp, i) |-> BeatAt(bp, BeatsBefore(lp, i) + j - 1)]]

MeasureNoBeats == [hasBeats |-> FALSE, beats |-> <<>>]

MkMeasures(n, lp, bp) == [i \in 1 .. n |-> MkMeasure(lp, bp, i - 1)]

\* (strings, string_count, hasTuning, tuning values, hasStrings, hasStringCount);
\* the last one is a track that declares strings: 0
StringConfigs ==
  { <<2, 0, TRUE, <<64, 59>>, TRUE, FALSE>>,
    <<2, 0, TRUE, <<64>>, TRUE, FALSE>>,
    <<1, 0, TRUE, <<64, 59>>, TRUE, FALSE>>,
    <<0, 3, TRUE, <<64, 59, 55>>, FALSE, TRUE>>,
    <<0, 0, TRUE, <<64, 59, 55, 50, 45, 40>>, FALSE, FALSE>>,
    <<0, 0, TRUE, <<64, 59, 55, 50>>, FALSE, FALSE>>,
    <<3, 0, FALSE, <<>>, TRUE, FALSE>>,
    <<0, 0, FALSE, <<>>, TRUE, FALSE>> }

MkTrack(sc, hasM, ms) ==
  [strings |-> sc[1], string_count |-> sc[2], hasTuning |-> sc[3], tuning |-> sc[4],
   hasStrings |-> sc[5], hasStringCount |-> sc[6],
   hasMeasures |-> hasM, measures |-> ms]

\* the example of the specification: 2 measures of 4 beats, nothing on string 3
ExampleMeasure ==
  [hasBeats |-> TRUE, beats |-> <<BeatKinds[2], BeatKinds[3], BeatKinds[1], BeatKinds[4]>>]

ExampleTrack ==
  MkTrack(<<0, 0, TRUE, <<64, 59, 55, 50, 45, 40>>, FALSE, FALSE>>, TRUE, <<ExampleMeasure, ExampleMeasure>>)

\* a measure without a beats array in the middle of a track
GapTrack ==
  MkTrack(<<2, 0, TRUE, <<64, 59>>, TRUE, FALSE>>, TRUE,
          <<MkMeasure(<<1>>, <<1, 1>>, 0), MeasureNoBeats, MkMeasure(<<2>>, <<2, 1>>, 0)>>)

Tracks ==
  { MkTrack(sc, TRUE, MkMeasures(n, lp, bp)) :
      sc \in StringConfigs, n \in 0 .. MaxMeasures, lp \in LenPatterns, bp \in BeatPatterns }
  \cup { MkTrack(sc, FALSE, <<>>) : sc \in StringConfigs }
  \cup { ExampleTrack, GapTrack }

\* -------------------------------------------------------------- converters
\* Text is a sequence of one-character strings.
\* The converters module is described by the specification (section 4.1):
\* twelve sharp-spelled names indexed by pitch mod 12, the octave
\* floor(pitch / 12) - 1 appended in decimal, no bounds check; the inverse
\* matches [A-G](#|b)?<octave-digits> and looks the pitch name up.
SharpNames ==
  << <<"C">>, <<"C", "#">>, <<"D">>, <<"D", "#">>, <<"E">>, <<"F">>,
     <<"F", "#">>, <<"G">>, <<"G", "#">>, <<"A">>, <<"A", "#">>, <<"B">> >>

Digits == <<"0", "1", "2", "3", "4", "5", "6", "7", "8", "9">>

RECURSIVE NatToText(_)
NatToText(n) == IF n < 10 THEN <<Digits[n + 1]>> ELSE Append(NatToText(n \div 10), Digits[(n % 10) + 1])

\* a number inside a template string
NumberToText(i) == IF i < 0 THEN <<"-">> \o NatToText(0 - i) ELSE NatToText(i)

\* nameOf: names[pitch mod 12] followed by floor(pitch / 12) - 1
midiToNoteName(midi) == SharpNames[(midi % 12) + 1] \o NumberToText((midi \div 12) - 1)

IsDigit(c) == \E d \in 1 .. 10 : Digits[d] = c

DigitValue(c) == (CHOOSE d \in 1 .. 10 : Digits[d] = c) - 1

RECURSIVE TextToNat(_)
TextToNat(t) ==
  IF Len(t) = 0 THEN 0 ELSE 10 * TextToNat(SubSeq(t, 1, Len(t) - 1)) + DigitValue(t[Len(t)])

\* the lookup of pitch names, sharp and flat spellings
NoteMap ==
  { <<(<<"C">>), 0>>, <<(<<"C", "#">>), 1>>, <<(<<"D", "b">>), 1>>, <<(<<"D">>), 2>>,
    <<(<<"D", "#">>), 3>>, <<(<<"E", "b">>), 3>>, <<(<<"E">>), 4>>, <<(<<"F">>), 5>>,
    <<(<<"F", "#">>), 6>>, <<(<<"G", "b">>), 6>>, <<(<<"G">>), 7>>, <<(<<"G", "#">>), 8>>,
    <<(<<"A", "b">>), 8>>, <<(<<"A">>), 9>>, <<(<<"A", "#">>), 10>>, <<(<<"B", "b">>), 10>>,
    <<(<<"B">>), 11>> }

\* length of the ([A-G](#|b)?) group at the head of the text, 0 without a match
PitchNameLength(t) ==
  IF Len(t) = 0 \/ t[1] \notin {"A", "B", "C", "D", "E", "F", "G"} THEN 0
  ELSE IF Len(t) >= 2 /\ t[2] \in {"#", "b"} THEN 2
  ELSE 1

\* the whole text matches [A-G](#|b)?<octave-digits>
MatchesNotePattern(t) ==
  /\ PitchNameLength(t) > 0
  /\ Len(t) > PitchNameLength(t)
  /\ \A i \in PitchNameLength(t) + 1 .. Len(t) : IsDigit(t[i])

InvalidNoteName == [ok |-> FALSE, midi |-> 0]

\* midiOf: (octave + 1) * 12 + pitch class, or InvalidNoteName
noteNameToMidi(t) ==
  IF ~MatchesNotePattern(t) THEN InvalidNoteName
  ELSE IF ~\E e \in NoteMap : e[1] = SubSeq(t, 1, PitchNameLength(t)) THEN InvalidNoteName
  ELSE [ok |-> TRUE,
        midi |-> (TextToNat(SubSeq(t, PitchNameLength(t) + 1, Len(t))) + 1) * 12
                 + (CHOOSE e \in NoteMap : e[1] = SubSeq(t, 1, PitchNameLength(t)))[2]]

\* ------------------------------------------------------------- StringsView
\* const stringCount = track.strings || track.string_count || 6
StringCount(t) ==
  IF t.strings # 0 THEN t.strings
  ELSE IF t.string_count # 0 THEN t.string_count
  ELSE DefaultStringCount

\* getTuningInfo(): the midiValue of every tuning entry, [] without a tuning array
TuningInfo(t) == IF t.hasTuning THEN t.tuning ELSE <<>>

Undefined == [defined |-> FALSE, values |-> <<>>]

StringMidiValuesPadded(t) ==
  [defined |-> TRUE,
   values |-> [s \in 1 .. StringCount(t) |-> IF s <= Len(TuningInfo(t)) THEN TuningInfo(t)[s] ELSE 0]]

\* tuningInfo.length === stringCount ? tuningInfo.map(t => t.midiValue) : undefined
StringMidiValues(t) ==
  IF Len(TuningInfo(t)) = StringCount(t)
  THEN [defined |-> TRUE, values |-> TuningInfo(t)]
  ELSE Undefined

NotFound == [found |-> FALSE, note |-> Note(0, "", "", NoTuplet)]

\* notes.find(n => n.string === stringNumber)
RECURSIVE FindInNotes(_, _, _)
FindInNotes(ns, i, stringNumber) ==
  IF i > Len(ns) THEN NotFound
  ELSE IF ns[i].string = stringNumber THEN [found |-> TRUE, note |-> ns[i]]
  ELSE FindInNotes(ns, i + 1, stringNumber)

RECURSIVE VoiceScanLastWins(_, _, _)
VoiceScanLastWins(voices, i, stringNumber) ==
  IF i > Len(voices) THEN NotFound
  ELSE IF VoiceScanLastWins(voices, i + 1, stringNumber).found
       THEN VoiceScanLastWins(voices, i + 1, stringNumber)
       ELSE IF voices[i].hasNotes THEN FindInNotes(voices[i].notes, 1, stringNumber) ELSE NotFound

\* for (const voice of beat.voices) { if (voice.notes) { foundNote = find; if (foundNote) break } }
RECURSIVE VoiceScan(_, _, _)
VoiceScan(voices, i, stringNumber) ==
  IF i > Len(voices) THEN NotFound
  ELSE IF voices[i].hasNotes /\ FindInNotes(voices[i].notes, 1, stringNumber).found
       THEN FindInNotes(voices[i].notes, 1, stringNumber)
       ELSE VoiceScan(voices, i + 1, stringNumber)

\* voices variant: let foundNote = null; if (beat.voices && Array.isArray(beat.voices)) ...
FindNoteVoices(beat, stringNumber) ==
  IF beat.hasVoices THEN VoiceScan(beat.voices, 1, stringNumber) ELSE NotFound

\* flat variant: beat.notes?.find(n => n.string === stringNumber)
FindNoteFlat(beat, stringNumber) ==
  IF beat.hasNotes THEN FindInNotes(beat.notes, 1, stringNumber) ELSE NotFound

FindNoteZeroBased(v, beat, stringNumber) ==
  IF v = "voices" THEN FindNoteVoices(beat, stringNumber - 1)
  ELSE FindNoteFlat(beat, stringNumber - 1)

\* const stringNumber = s + 1, then the search of the mounted variant
FindNote(v, beat, stringNumber) ==
  IF v = "voices" THEN FindNoteVoices(beat, stringNumber) ELSE FindNoteFlat(beat, stringNumber)

\* lines[s].push({ fret: foundNote.fret, duration: beat.duration || foundNote.duration, ... })
\* (no tuplet field is copied by either variant)
NoteCell(beat, n) ==
  [fret |-> n.fret, isMeasureSeparator |-> FALSE,
   duration |-> IF beat.duration # "" THEN beat.duration ELSE n.duration,
   tuplet |-> NoTuplet]

\* lines[s].push({ fret: "-", duration: beat.duration })
RestCell(beat) ==
  [fret |-> "-", isMeasureSeparator |-> FALSE, duration |-> beat.duration, tuplet |-> NoTuplet]

SeparatorCellNoFlag ==
  [fret |-> "|", isMeasureSeparator |-> FALSE, duration |-> "", tuplet |-> NoTuplet]

\* { fret: "|", isMeasureSeparator: true }
SeparatorCell ==
  [fret |-> "|", isMeasureSeparator |-> TRUE, duration |-> "", tuplet |-> NoTuplet]

BeatCell(v, beat, s) ==
  IF FindNote(v, beat, s + 1).found
  THEN NoteCell(beat, FindNote(v, beat, s + 1).note)
  ELSE RestCell(beat)

PushBeatNotesOnly(ls, stringCount, v, beat) ==
  [s \in 1 .. stringCount |->
     IF FindNote(v, beat, s).found THEN Append(ls[s], BeatCell(v, beat, s - 1)) ELSE ls[s]]

\* the body of beats.forEach: for (let s = 0; s < stringCount; s++) lines[s].push(cell)
PushBeat(ls, stringCount, v, beat) ==
  [s \in 1 .. stringCount |-> Append(ls[s], BeatCell(v, beat, s - 1))]

PushSeparatorsFromOne(ls, stringCount) ==
  [s \in 1 .. stringCount |-> IF s - 1 >= 1 THEN Append(ls[s], SeparatorCell) ELSE ls[s]]

\* for (let s = 0; s < stringCount; s++) lines[s].push({ fret: "|", isMeasureSeparator: true })
PushSeparators(ls, stringCount) ==
  [s \in 1 .. stringCount |-> Append(ls[s], SeparatorCell)]

\* Array(stringCount).fill(0).map(() => [])
EmptyLines(stringCount) == [s \in 1 .. stringCount |-> <<>>]

\* ----------------------------------------------------------- TablatureView
\* tabLines[0][noteIndex]?.isMeasureSeparator
IsSeparatorAt(tl, noteIndex) ==
  /\ Len(tl) >= 1
  /\ noteIndex < Len(tl[1])
  /\ tl[1][noteIndex + 1].isMeasureSeparator

\* measurePositions: the indices of the separators of tabLines[0]
RECURSIVE MeasurePositionsFrom(_, _)
MeasurePositionsFrom(tl, index) ==
  IF Len(tl) = 0 \/ index >= Len(tl[1]) THEN <<>>
  ELSE IF IsSeparatorAt(tl, index)
       THEN <<index>> \o MeasurePositionsFrom(tl, index + 1)
       ELSE MeasurePositionsFrom(tl, index + 1)

MeasurePositions(tl) == MeasurePositionsFrom(tl, 0)

HorizontalMeasureLabelZeroBased(measureIndex) == measureIndex

\* {measureIndex + 1}
HorizontalMeasureLabel(measureIndex) == measureIndex + 1

\* measurePositions.map((position, measureIndex) => measureIndex + 1)
HorizontalLabels(tl) ==
  [i \in 1 .. Len(MeasurePositions(tl)) |-> HorizontalMeasureLabel(i - 1)]

\* the * 32 and - 32 of marginLeft, the min-w-[32px] of a label
CellWidth == 32

HorizontalMarginLeftFromStart(positions, measureIndex) ==
  IF measureIndex = 0 THEN positions[1] * CellWidth
  ELSE (positions[measureIndex + 1] - positions[measureIndex]) * CellWidth - CellWidth

\* marginLeft: measureIndex === 0 ? '0' :
\*   (position - (measurePositions[measureIndex - 1] || 0)) * 32 - 32 px
HorizontalMarginLeft(positions, measureIndex) ==
  IF measureIndex = 0 THEN 0
  ELSE (positions[measureIndex + 1] - positions[measureIndex]) * CellWidth - CellWidth

\* left edge of the label of measureIndex in the flex row of labels, in px from
\* the left edge of the first cell: the labels before it, each with its margin
\* and its width, then its own margin
RECURSIVE HorizontalLabelLeft(_, _)
HorizontalLabelLeft(positions, measureIndex) ==
  IF measureIndex = 0 THEN HorizontalMarginLeft(positions, 0)
  ELSE HorizontalLabelLeft(positions, measureIndex - 1) + CellWidth
       + HorizontalMarginLeft(positions, measureIndex)

HorizontalLabelOffsets(tl) ==
  [i \in 1 .. Len(MeasurePositions(tl)) |-> HorizontalLabelLeft(MeasurePositions(tl), i - 1)]

StringNamesReversed(midiValues) ==
  [s \in 1 .. Len(midiValues) |-> midiToNoteName(midiValues[Len(midiValues) + 1 - s])]

\* const stringNames = stringMidiValues.map(midi => midiToNoteName(midi))
StringNames(midiValues) == [s \in 1 .. Len(midiValues) |-> midiToNoteName(midiValues[s])]

\* Array.from({ length: stringCount }).map((_, stringIndex) => tabLines[stringIndex]?.map(...))
HorizontalRow(tl, stringCount) ==
  [s \in 1 .. stringCount |-> IF s <= Len(tl) THEN tl[s] ELSE <<>>]

RECURSIVE MaxLineLength(_, _)
MaxLineLength(tl, s) ==
  IF s > Len(tl) THEN 0
  ELSE IF Len(tl[s]) > MaxLineLength(tl, s + 1) THEN Len(tl[s]) ELSE MaxLineLength(tl, s + 1)

\* const maxNotes = Math.max(...tabLines.map(line => line.length))
MaxNotes(tl) == MaxLineLength(tl, 1)

PushColumnNoSeparators(currentRow, tl, stringCount, noteIndex) ==
  [s \in 1 .. stringCount |->
     IF noteIndex < Len(tl[s]) /\ ~tl[s][noteIndex + 1].isMeasureSeparator
     THEN Append(currentRow[s], tl[s][noteIndex + 1]) ELSE currentRow[s]]

\* for (stringIndex < stringCount) { const note = tabLines[stringIndex][noteIndex];
\*                                   if (note) currentRow[stringIndex].push(note) }
PushColumn(currentRow, tl, stringCount, noteIndex) ==
  [s \in 1 .. stringCount |->
     IF noteIndex < Len(tl[s]) THEN Append(currentRow[s], tl[s][noteIndex + 1]) ELSE currentRow[s]]

RowIsFullStrict(measuresInCurrentRow, mpr) == measuresInCurrentRow > mpr

\* if (measuresInCurrentRow >= measuresPerRow)
RowIsFull(measuresInCurrentRow, mpr) == measuresInCurrentRow >= mpr

WrapStepCountingNotes(w, tl, stringCount, mpr, noteIndex) ==
  LET cur == PushColumn(w.currentRow, tl, stringCount, noteIndex)
  IN IF RowIsFull(w.notesInCurrentRow + 1, mpr)
     THEN [rows |-> Append(w.rows, cur), currentRow |-> EmptyLines(stringCount),
           notesInCurrentRow |-> 0, measuresInCurrentRow |-> 0]
     ELSE [rows |-> w.rows, currentRow |-> cur,
           notesInCurrentRow |-> w.notesInCurrentRow + 1,
           measuresInCurrentRow |->
             IF IsSeparatorAt(tl, noteIndex) THEN w.measuresInCurrentRow + 1
             ELSE w.measuresInCurrentRow]

\* one iteration of the noteIndex loop of renderWrappedView
WrapStep(w, tl, stringCount, mpr, noteIndex) ==
  LET cur == PushColumn(w.currentRow, tl, stringCount, noteIndex)
  IN IF IsSeparatorAt(tl, noteIndex) /\ RowIsFull(w.measuresInCurrentRow + 1, mpr)
     THEN [rows |-> Append(w.rows, cur), currentRow |-> EmptyLines(stringCount),
           notesInCurrentRow |-> 0, measuresInCurrentRow |-> 0]
     ELSE [rows |-> w.rows, currentRow |-> cur,
           notesInCurrentRow |-> w.notesInCurrentRow + 1,
           measuresInCurrentRow |->
             IF IsSeparatorAt(tl, noteIndex) THEN w.measuresInCurrentRow + 1
             ELSE w.measuresInCurrentRow]

\* for (let noteIndex = 0; noteIndex < maxNotes; noteIndex++)
RECURSIVE WrapLoop(_, _, _, _, _, _)
WrapLoop(w, tl, stringCount, mpr, noteIndex, maxNotes) ==
  IF noteIndex >= maxNotes THEN w
  ELSE WrapLoop(WrapStep(w, tl, stringCount, mpr, noteIndex), tl, stringCount, mpr,
                noteIndex + 1, maxNotes)

WrappedRowsNoTrailing(tl, stringCount, mpr) ==
  WrapLoop([rows |-> <<>>, currentRow |-> EmptyLines(stringCount),
            notesInCurrentRow |-> 0, measuresInCurrentRow |-> 0],
           tl, stringCount, mpr, 0, MaxNotes(tl)).rows

\* the rows of renderWrappedView; if (notesInCurrentRow > 0) rows.push(currentRow)
WrappedRows(tl, stringCount, mpr) ==
  LET w == WrapLoop([rows |-> <<>>, currentRow |-> EmptyLines(stringCount),
                     notesInCurrentRow |-> 0, measuresInCurrentRow |-> 0],
                    tl, stringCount, mpr, 0, MaxNotes(tl))
  IN IF w.notesInCurrentRow > 0 THEN Append(w.rows, w.currentRow) ELSE w.rows

WrappedMeasureLabelRestart(rowIndex, mpr, measureCount) == measureCount

\* measuresInThisRow.push(rowIndex * measuresPerRow + measureCount)
WrappedMeasureLabel(rowIndex, mpr, measureCount) == rowIndex * mpr + measureCount

\* row[0]?.forEach(note => { if (note.isMeasureSeparator) { measureCount++; push(label) } })
RowMeasureLabels(row, rowIndex, mpr) ==
  [i \in 1 .. Len(MeasurePositions(row)) |-> WrappedMeasureLabel(rowIndex, mpr, i)]

RECURSIVE TupletCountSkipping(_, _, _, _)
TupletCountSkipping(allNotes, note, i, tupletCount) ==
  IF i < Len(allNotes[1]) /\ tupletCount < note.tuplet[1]
  THEN IF /\ allNotes[1][i + 1].tuplet # NoTuplet
          /\ allNotes[1][i + 1].tuplet[1] = note.tuplet[1]
          /\ allNotes[1][i + 1].tuplet[2] = note.tuplet[2]
          /\ ~allNotes[1][i + 1].isMeasureSeparator
       THEN TupletCountSkipping(allNotes, note, i + 1, tupletCount + 1)
       ELSE TupletCountSkipping(allNotes, note, i + 1, tupletCount)
  ELSE tupletCount

\* the loop of shouldShowTupletBracket: count consecutive cells of allNotes[0] from
\* index i that carry the tuplet of `note` and are no separators, at most enters
RECURSIVE TupletCount(_, _, _, _)
TupletCount(allNotes, note, i, tupletCount) ==
  IF i < Len(allNotes[1]) /\ tupletCount < note.tuplet[1]
  THEN IF /\ allNotes[1][i + 1].tuplet # NoTuplet
          /\ allNotes[1][i + 1].tuplet[1] = note.tuplet[1]
          /\ allNotes[1][i + 1].tuplet[2] = note.tuplet[2]
          /\ ~allNotes[1][i + 1].isMeasureSeparator
       THEN TupletCount(allNotes, note, i + 1, tupletCount + 1)
       ELSE tupletCount
  ELSE tupletCount

ShouldShowTupletBracketAnyString(note, stringIndex, noteIndex, allNotes) ==
  IF note.tuplet = NoTuplet THEN FALSE
  ELSE TupletCount(allNotes, note, noteIndex, 0) = note.tuplet[1]

ShouldShowTupletBracket(note, stringIndex, noteIndex, allNotes) ==
  IF note.tuplet = NoTuplet THEN FALSE
  ELSE IF stringIndex # 0 THEN FALSE
  ELSE TupletCount(allNotes, note, noteIndex, 0) = note.tuplet[1]

\* renderTabNote: a separator returns the divider before any bracket is considered
RendersBracket(note, stringIndex, noteIndex, allNotes) ==
  /\ ~note.isMeasureSeparator
  /\ ShouldShowTupletBracket(note, stringIndex, noteIndex, allNotes)

\* the cells of one rendered row that carry a bracket, as <<stringIndex, noteIndex>>;
\* `shown` are the lines mapped over, allNotes the array handed to renderTabNote
RowBrackets(shown, allNotes) ==
  { p \in UNION { {<<s - 1, n - 1>> : n \in 1 .. Len(shown[s])} : s \in 1 .. Len(shown) } :
      RendersBracket(shown[p[1] + 1][p[2] + 1], p[1], p[2], allNotes) }

IsPlayedTruthy(note) == note.fret \notin {"-", "", "0"}

\* const isPlayed = note.fret !== "-" && note.fret !== ""
IsPlayed(note) == note.fret # "-" /\ note.fret # ""

\* symbols[duration] || the quarter symbol; the symbols are named, not drawn
getDurationSymbol(duration) ==
  CASE duration = "whole" -> "whole note"
    [] duration = "half" -> "half note"
    [] duration = "quarter" -> "quarter note"
    [] duration = "eighth" -> "beamed eighths"
    [] duration = "sixteenth" -> "beamed sixteenths"
    [] duration = "thirty-second" -> "beamed sixteenths"
    [] OTHER -> "quarter note"

\* what renderTabNote draws in the slot of one cell: the divider of a
\* separator; the fret disc of a played cell, with the duration marker when
\* note.duration is set; the small neutral dot otherwise, with nothing under it
RenderTabNote(note) ==
  IF note.isMeasureSeparator THEN [kind |-> "divider", fret |-> "", durationSymbol |-> ""]
  ELSE IF IsPlayed(note)
  THEN [kind |-> "note", fret |-> note.fret,
        durationSymbol |-> IF note.duration # "" THEN getDurationSymbol(note.duration) ELSE ""]
  ELSE [kind |-> "rest", fret |-> "", durationSymbol |-> ""]

\* row[stringIndex]?.map((note, noteIndex) => renderTabNote(note, ...))
RowDisplay(row) == [s \in 1 .. Len(row) |-> [i \in 1 .. Len(row[s]) |-> RenderTabNote(row[s][i])]]

NoView ==
  [rows |-> <<>>, measureLabels |-> <<>>, brackets |-> <<>>, stringNames |-> <<>>,
   labelOffsets |-> <<>>, display |-> <<>>]

RenderBracketsOverTabLines(tl, midiValues, mode, mpr) ==
  LET stringCount == Len(midiValues)
      rows == IF mode = "horizontal" THEN <<HorizontalRow(tl, stringCount)>>
              ELSE WrappedRows(tl, stringCount, mpr)
  IN [rows |-> rows,
      measureLabels |->
        IF mode = "horizontal" THEN <<HorizontalLabels(tl)>>
        ELSE [r \in 1 .. Len(rows) |-> RowMeasureLabels(rows[r], r - 1, mpr)],
      brackets |-> [r \in 1 .. Len(rows) |-> RowBrackets(rows[r], tl)],
      stringNames |-> StringNames(midiValues),
      labelOffsets |-> IF mode = "horizontal" THEN HorizontalLabelOffsets(tl) ELSE <<>>,
      display |-> [r \in 1 .. Len(rows) |-> RowDisplay(rows[r])]]

\* what TablatureView renders for its props and its two state cells
Render(tl, midiValues, mode, mpr) ==
  LET stringCount == Len(midiValues)
      rows == IF mode = "horizontal" THEN <<HorizontalRow(tl, stringCount)>>
              ELSE WrappedRows(tl, stringCount, mpr)
  IN [rows |-> rows,
      measureLabels |->
        IF mode = "horizontal" THEN <<HorizontalLabels(tl)>>
        ELSE [r \in 1 .. Len(rows) |-> RowMeasureLabels(rows[r], r - 1, mpr)],
      brackets |->
        IF mode = "horizontal" THEN <<RowBrackets(rows[1], tl)>>
        ELSE [r \in 1 .. Len(rows) |-> RowBrackets(rows[r], rows[r])],
      stringNames |-> StringNames(midiValues),
      labelOffsets |-> IF mode = "horizontal" THEN HorizontalLabelOffsets(tl) ELSE <<>>,
      display |-> [r \in 1 .. Len(rows) |-> RowDisplay(rows[r])]]

\* ------------------------------------------------- TablatureView used alone
\* cells as a caller of TablatureView may pass them, tuplet metadata included
PlainCell(f) == [fret |-> f, isMeasureSeparator |-> FALSE, duration |-> "quarter", tuplet |-> NoTuplet]

TupletCell(f, t) == [fret |-> f, isMeasureSeparator |-> FALSE, duration |-> "eighth", tuplet |-> t]

PropCells ==
  { SeparatorCell, PlainCell("-"), PlainCell("3"), TupletCell("5", <<2, 3>>), TupletCell("7", <<3, 2>>) }

RECURSIVE SeqsUpTo(_, _)
SeqsUpTo(S, n) ==
  IF n = 0 THEN { <<>> }
  ELSE SeqsUpTo(S, n - 1) \cup { Append(q, x) : q \in { r \in SeqsUpTo(S, n - 1) : Len(r) = n - 1 }, x \in S }

\* a second line in lockstep with the first: separators at the same indices
Companion(line, c) ==
  [i \in 1 .. Len(line) |->
     IF line[i].isMeasureSeparator \/ c = 0 THEN line[i]
     ELSE IF c = 1 THEN PlainCell("-")
     ELSE TupletCell("2", <<2, 3>>)]

PropTabLines ==
  { <<l>> : l \in SeqsUpTo(PropCells, MaxCells) }
  \cup { <<l, Companion(l, c)>> :
           l \in SeqsUpTo(PropCells, MaxCells), c \in 0 .. 2 }

\* ------------------------------------------------------ text TablatureView
\* the tuning of the example: E4 B3 G3 D3 A2 E2
StandardTuning == <<64, 59, 55, 50, 45, 40>>

\* TabNote of the text view: fret (absent: hasFret FALSE), technique ("" absent)
TextCell(f, t) == [fret |-> f, hasFret |-> TRUE, technique |-> t, isMeasureSeparator |-> FALSE]

TextCellNoFret == [fret |-> "", hasFret |-> FALSE, technique |-> "", isMeasureSeparator |-> FALSE]

TextSeparator == [fret |-> "|", hasFret |-> TRUE, technique |-> "", isMeasureSeparator |-> TRUE]

Absent == [given |-> FALSE, values |-> <<>>]

Given(v) == [given |-> TRUE, values |-> v]

Null == [rendered |-> FALSE, labels |-> <<>>, techniqueLines |-> <<>>, fretLines |-> <<>>]

\* line.map(note => note.isMeasureSeparator ? "|" : note.technique || " ")
TechniqueLine(line) ==
  [i \in 1 .. Len(line) |->
     IF line[i].isMeasureSeparator THEN "|"
     ELSE IF line[i].technique # "" THEN line[i].technique ELSE " "]

\* line.map(note => note.isMeasureSeparator ? "|" : note.fret ?? "-")
FretLine(line) ==
  [i \in 1 .. Len(line) |->
     IF line[i].isMeasureSeparator THEN "|"
     ELSE IF line[i].hasFret THEN line[i].fret ELSE "-"]

\* if (stringNames && stringNames.length === tabLines.length) labels = stringNames
\* else if (stringMidiValues && stringMidiValues.length === tabLines.length)
\*   labels = stringMidiValues.map(midiToNoteName)
\* else return null
TextLabels(names, midi, tl) ==
  IF names.given /\ Len(names.values) = Len(tl) THEN Given(names.values)
  ELSE IF midi.given /\ Len(midi.values) = Len(tl) THEN Given(StringNames(midi.values))
  ELSE Absent

\* what the text TablatureView returns for its props
RenderText(names, midi, tl) ==
  IF ~TextLabels(names, midi, tl).given THEN Null
  ELSE [rendered |-> TRUE,
        labels |-> TextLabels(names, midi, tl).values,
        techniqueLines |-> [s \in 1 .. Len(tl) |-> TechniqueLine(tl[s])],
        fretLines |-> [s \in 1 .. Len(tl) |-> FretLine(tl[s])]]

\* labels a caller supplies, written differently from the derived names
CallerNames == << <<"e">>, <<"B">>, <<"G">>, <<"D">>, <<"A">>, <<"E">> >>

TextLines ==
  { <<>>,
    <<TextCell("3", "H"), TextCellNoFret, TextSeparator>>,
    <<TextCell("0", ""), TextSeparator, TextCell("12", "P.M.")>> }

TextProps ==
  { [stringNames |-> n, stringMidiValues |-> m, tabLines |-> [s \in 1 .. k |-> l]] :
      n \in {Absent} \cup { Given(SubSeq(CallerNames, 1, j)) : j \in 0 .. MaxTextStrings },
      m \in {Absent} \cup { Given(SubSeq(StandardTuning, 1, j)) : j \in 0 .. MaxTextStrings },
      k \in 0 .. MaxTextStrings,
      l \in TextLines }

NoTextView == [stage |-> "none", props |-> [stringNames |-> Absent, stringMidiValues |-> Absent, tabLines |-> <<>>], out |-> Null]

\* ------------------------------------------------------------ state machine
VARIABLES
  variant,           \* which StringsView source is mounted: "voices" or "flat"
  track,             \* the track prop of StringsView
  pc,                \* "idle", "build" (inside buildTabLines), "done", "props"
  mi,                \* index of the measure buildTabLines is in
  bi,                \* index of the next beat of that measure
  lines,             \* the local `lines` of buildTabLines
  outcome,           \* what StringsView returned
  stringMidiValues,  \* the stringMidiValues of StringsView / prop of TablatureView
  tabLines,          \* the tabLines prop of TablatureView
  viewMode,          \* useState('horizontal')
  measuresPerRow,    \* useState(4)
  view,              \* what TablatureView last rendered
  conv,              \* a use of the converters: the pitch, its name, the name parsed
  textView           \* the text TablatureView: its props and what it returned

vars ==
  <<variant, track, pc, mi, bi, lines, outcome, stringMidiValues, tabLines,
    viewMode, measuresPerRow, view, conv, textView>>

viewVars == <<viewMode, measuresPerRow, view>>

NoConv == [stage |-> "none", pitch |-> 0, name |-> <<>>, parsed |-> InvalidNoteName]

Init ==
  /\ variant \in {"voices", "flat"}
  /\ track \in Tracks
  /\ pc = "idle"
  /\ mi = 0
  /\ bi = 0
  /\ lines = <<>>
  /\ outcome = "none"
  /\ stringMidiValues = Undefined
  /\ tabLines = <<>>
  /\ viewMode = "horizontal"
  /\ measuresPerRow = DefaultMeasuresPerRow
  /\ view = NoView
  /\ conv = NoConv
  /\ textView = NoTextView

\* StringsView is called: stringCount, tuningInfo, stringMidiValues, then
\* buildTabLines(track) starts; track.measures.forEach throws without measures
Start ==
  /\ pc = "idle"
  /\ stringMidiValues' = StringMidiValues(track)
  /\ lines' = EmptyLines(StringCount(track))
  /\ IF track.hasMeasures
     THEN pc' = "build" /\ outcome' = outcome
     ELSE pc' = "done" /\ outcome' = "TypeError"
  /\ UNCHANGED <<variant, track, mi, bi, tabLines, viewVars, conv, textView>>

\* one call of the beats.forEach callback
ProcessBeat ==
  /\ pc = "build"
  /\ mi < Len(track.measures)
  /\ track.measures[mi + 1].hasBeats
  /\ bi < Len(track.measures[mi + 1].beats)
  /\ lines' = PushBeat(lines, StringCount(track), variant, track.measures[mi + 1].beats[bi + 1])
  /\ bi' = bi + 1
  /\ UNCHANGED <<variant, track, pc, mi, outcome, stringMidiValues, tabLines, viewVars, conv, textView>>

\* the end of one call of the measures.forEach callback
EndMeasure ==
  /\ pc = "build"
  /\ mi < Len(track.measures)
  /\ \/ ~track.measures[mi + 1].hasBeats
     \/ bi = Len(track.measures[mi + 1].beats)
  /\ lines' = PushSeparators(lines, StringCount(track))
  /\ mi' = mi + 1
  /\ bi' = 0
  /\ UNCHANGED <<variant, track, pc, outcome, stringMidiValues, tabLines, viewVars, conv, textView>>

\* buildTabLines returns; StringsView picks what to return and, for a
\* tablature, TablatureView mounts and renders
Finish ==
  /\ pc = "build"
  /\ mi = Len(track.measures)
  /\ pc' = "done"
  /\ tabLines' = lines
  /\ outcome' = IF Len(track.measures) = 0 THEN "no_measures"
                ELSE IF ~stringMidiValues.defined THEN "tuning_error"
                ELSE "tablature"
  /\ view' = IF outcome' = "tablature"
             THEN Render(lines, stringMidiValues.values, viewMode, measuresPerRow)
             ELSE NoView
  /\ UNCHANGED <<variant, track, mi, bi, lines, stringMidiValues, viewMode, measuresPerRow, conv, textView>>

ToggleViewModeConsuming ==
  /\ outcome = "tablature"
  /\ viewMode' = IF viewMode = "horizontal" THEN "wrapped" ELSE "horizontal"
  /\ view' = Render(tabLines, stringMidiValues.values, viewMode', measuresPerRow)
  /\ tabLines' = IF viewMode' = "wrapped" THEN [s \in 1 .. Len(tabLines) |-> <<>>] ELSE tabLines
  /\ UNCHANGED <<variant, track, pc, mi, bi, lines, outcome, stringMidiValues, measuresPerRow, conv, textView>>

\* onClick={() => setViewMode(viewMode === 'horizontal' ? 'wrapped' : 'horizontal')}
ToggleViewMode ==
  /\ outcome = "tablature"
  /\ viewMode' = IF viewMode = "horizontal" THEN "wrapped" ELSE "horizontal"
  /\ view' = Render(tabLines, stringMidiValues.values, viewMode', measuresPerRow)
  /\ UNCHANGED <<variant, track, pc, mi, bi, lines, outcome, stringMidiValues, tabLines, measuresPerRow, conv, textView>>

SetMeasuresPerRowLeavingWrapped ==
  /\ outcome = "tablature"
  /\ viewMode = "wrapped"
  /\ \E k \in MeasuresPerRowOptions :
       /\ measuresPerRow' = k
       /\ viewMode' = IF k = measuresPerRow THEN viewMode ELSE "horizontal"
       /\ view' = Render(tabLines, stringMidiValues.values, viewMode', k)
  /\ UNCHANGED <<variant, track, pc, mi, bi, lines, outcome, stringMidiValues, tabLines, conv, textView>>

\* onChange={(e) => setMeasuresPerRow(Number(e.target.value))}, shown when wrapped
SetMeasuresPerRow ==
  /\ outcome = "tablature"
  /\ viewMode = "wrapped"
  /\ \E k \in MeasuresPerRowOptions :
       /\ measuresPerRow' = k
       /\ view' = Render(tabLines, stringMidiValues.values, viewMode, k)
  /\ UNCHANGED <<variant, track, pc, mi, bi, lines, outcome, stringMidiValues, tabLines, viewMode, conv, textView>>

Next ==
  \/ Start
  \/ ProcessBeat
  \/ EndMeasure
  \/ Finish
  \/ ToggleViewMode
  \/ SetMeasuresPerRow

Spec == Init /\ [][Next]_vars

\* TablatureView mounted by a caller that passes its own tabLines
NoTrack == MkTrack(<<0, 0, FALSE, <<>>, FALSE, FALSE>>, FALSE, <<>>)

InitView ==
  /\ variant = "voices"
  /\ track = NoTrack
  /\ pc = "props"
  /\ mi = 0
  /\ bi = 0
  /\ lines = <<>>
  /\ outcome = "tablature"
  /\ tabLines \in PropTabLines
  /\ stringMidiValues = [defined |-> TRUE, values |-> [s \in 1 .. Len(tabLines) |-> 64 - 5 * (s - 1)]]
  /\ viewMode = "horizontal"
  /\ measuresPerRow = DefaultMeasuresPerRow
  /\ view = Render(tabLines, stringMidiValues.values, viewMode, measuresPerRow)
  /\ conv = NoConv
  /\ textView = NoTextView

NextView ==
  \/ ToggleViewMode
  \/ SetMeasuresPerRow

SpecView == InitView /\ [][NextView]_vars

\* the converters used on their own, and by the label column of a mounted
\* TablatureView
PitchInputs == (0 - PitchMargin) .. (MidiMax + PitchMargin)

\* texts a caller hands to noteNameToMidi
NameInputs ==
  { <<"D", "b", "4">>, <<"B", "b", "2">>, <<"A", "1", "0">>, <<"E", "#", "3">>,
    <<"H", "2">>, <<"C">>, <<"c", "4">>, <<"G", "4", "x">> }

InitPitch ==
  /\ variant = "voices"
  /\ track = NoTrack
  /\ pc = "props"
  /\ mi = 0
  /\ bi = 0
  /\ lines = <<>>
  /\ outcome = "tablature"
  /\ \/ \E p \in PitchInputs :
          /\ conv = [stage |-> "pitch", pitch |-> p, name |-> <<>>, parsed |-> InvalidNoteName]
          /\ stringMidiValues \in { [defined |-> TRUE, values |-> v] : v \in {StandardTuning, <<p>>} }
     \/ \E t \in NameInputs :
          /\ conv = [stage |-> "text", pitch |-> 0, name |-> t, parsed |-> InvalidNoteName]
          /\ stringMidiValues = [defined |-> TRUE, values |-> StandardTuning]
  /\ tabLines = [s \in 1 .. Len(stringMidiValues.values) |-> <<PlainCell("3"), SeparatorCell>>]
  /\ viewMode = "horizontal"
  /\ measuresPerRow = DefaultMeasuresPerRow
  /\ view = Render(tabLines, stringMidiValues.values, viewMode, measuresPerRow)
  /\ textView = NoTextView

\* midiToNoteName(pitch)
NameOfPitch ==
  /\ conv.stage = "pitch"
  /\ conv' = [conv EXCEPT !.stage = "named", !.name = midiToNoteName(conv.pitch)]
  /\ UNCHANGED <<variant, track, pc, mi, bi, lines, outcome, stringMidiValues, tabLines, viewVars, textView>>

\* noteNameToMidi(name), of a name midiToNoteName made or of a caller's text
ParseName ==
  /\ conv.stage \in {"named", "text"}
  /\ conv' = [conv EXCEPT !.stage = IF conv.stage = "named" THEN "parsed" ELSE "textParsed",
                          !.parsed = noteNameToMidi(conv.name)]
  /\ UNCHANGED <<variant, track, pc, mi, bi, lines, outcome, stringMidiValues, tabLines, viewVars, textView>>

NextPitch ==
  \/ NameOfPitch
  \/ ParseName
  \/ ToggleViewMode
  \/ SetMeasuresPerRow

SpecPitch == InitPitch /\ [][NextPitch]_vars

\* the text TablatureView mounted by a caller
InitText ==
  /\ variant = "voices"
  /\ track = NoTrack
  /\ pc = "text"
  /\ mi = 0
  /\ bi = 0
  /\ lines = <<>>
  /\ outcome = "none"
  /\ stringMidiValues = Undefined
  /\ tabLines = <<>>
  /\ viewMode = "horizontal"
  /\ measuresPerRow = DefaultMeasuresPerRow
  /\ view = NoView
  /\ conv = NoConv
  /\ \E p \in TextProps : textView = [stage |-> "props", props |-> p, out |-> Null]

\* one call of the text TablatureView component
RenderTextView ==
  /\ textView.stage = "props"
  /\ textView' = [textView EXCEPT
                    !.stage = "rendered",
                    !.out = RenderText(textView.props.stringNames,
                                       textView.props.stringMidiValues,
                                       textView.props.tabLines)]
  /\ UNCHANGED <<variant, track, pc, mi, bi, lines, outcome, stringMidiValues, tabLines,
                 viewVars, conv>>

NextText == RenderTextView

SpecText == InitText /\ [][NextText]_vars

\* ------------------------------------------------------ property vocabulary
NumMeasures == Len(track.measures)

BeatCount(m) == IF m.hasBeats THEN Len(m.beats) ELSE 0

\* number of beats in the first n measures of the track
RECURSIVE BeatsUpTo(_)
BeatsUpTo(n) == IF n = 0 THEN 0 ELSE BeatsUpTo(n - 1) + BeatCount(track.measures[n])

\* 0-based index at which the separator of measure i (1-based) must stand
ExpectedSeparatorIndex(i) == BeatsUpTo(i) + (i - 1)

SeparatorIndices(line) == { i \in 0 .. Len(line) - 1 : line[i + 1].isMeasureSeparator }

CeilDiv(n, k) == (n + k - 1) \div k

RECURSIVE Flatten(_)
Flatten(ss) == IF Len(ss) = 0 THEN <<>> ELSE Head(ss) \o Flatten(Tail(ss))

OneTo(n) == [i \in 1 .. n |-> i]

\* some note of the beat, in any voice or in the flat list, is on string number sn
HasAnyNote(beat, sn) ==
  \/ \E v \in 1 .. Len(beat.voices) : \E n \in 1 .. Len(beat.voices[v].notes) :
       beat.voices[v].notes[n].string = sn
  \/ \E n \in 1 .. Len(beat.notes) : beat.notes[n].string = sn

Building == pc \in {"build", "done"} /\ track.hasMeasures

Built == pc = "done" /\ track.hasMeasures

Wrapped == outcome = "tablature" /\ viewMode = "wrapped"

Horizontal == outcome = "tablature" /\ viewMode = "horizontal"

\* ------------------------------------------------------------------ claims
\* C1: buildTabLines keeps stringCount lines of one common length, after every
\* processed beat, after every processed measure and in the returned value.
C1_Lockstep ==
  /\ Building =>
       /\ Len(lines) = StringCount(track)
       /\ \A s, t \in 1 .. Len(lines) : Len(lines[s]) = Len(lines[t])
  /\ Built =>
       /\ Len(tabLines) = StringCount(track)
       /\ \A s, t \in 1 .. Len(tabLines) : Len(tabLines[s]) = Len(tabLines[t])

C1_Witness ==
  /\ Built
  /\ Len(tabLines) = 6
  /\ NumMeasures >= 2
  /\ \E i \in 1 .. Len(tabLines[1]) : tabLines[1][i].fret = "0" /\ tabLines[2][i].fret = "-"
  /\ \E m \in 1 .. NumMeasures : BeatCount(track.measures[m]) = 0

\* C2: every line holds exactly one separator per processed measure, measures
\* without beats included, and the i-th separator stands right after the cells
\* of the i-th measure; so a finished line holds exactly N separators.
C2_SeparatorPerMeasure ==
  /\ Building =>
       \A s \in 1 .. Len(lines) :
         SeparatorIndices(lines[s]) = { ExpectedSeparatorIndex(i) : i \in 1 .. mi }
  /\ Built =>
       \A s \in 1 .. Len(tabLines) :
         /\ Cardinality(SeparatorIndices(tabLines[s])) = NumMeasures
         /\ SeparatorIndices(tabLines[s]) = { ExpectedSeparatorIndex(i) : i \in 1 .. NumMeasures }

C2_Witness ==
  /\ Built
  /\ NumMeasures = 3
  /\ ~track.measures[2].hasBeats
  /\ BeatCount(track.measures[3]) = 2
  /\ SeparatorIndices(tabLines[2]) = {1, 2, 5}

\* C3: every beat adds exactly one non-separator cell to every line, a Rest
\* cell where the beat has no note for that string (also when it has no notes
\* at all), so each line is (beats of the track) + (measures) long; 2 measures
\* of 4 beats give 10 cells on every string.
C3_OneCellPerBeat ==
  /\ Building =>
       \A s \in 1 .. Len(lines) : Len(lines[s]) = BeatsUpTo(mi) + bi + mi
  /\ Built =>
       \A s \in 1 .. Len(tabLines) :
         /\ Len(tabLines[s]) = BeatsUpTo(NumMeasures) + NumMeasures
         /\ \A m \in 1 .. NumMeasures : \A b \in 1 .. BeatCount(track.measures[m]) :
              LET cell == tabLines[s][BeatsUpTo(m - 1) + (m - 1) + b]
              IN /\ ~cell.isMeasureSeparator
                 /\ ~HasAnyNote(track.measures[m].beats[b], s) =>
                      cell = RestCell(track.measures[m].beats[b])
  /\ (Built /\ track = ExampleTrack) =>
       /\ \A s \in 1 .. 6 : Len(tabLines[s]) = 10
       /\ Cardinality({ i \in 1 .. 10 : tabLines[3][i].fret = "-" }) = 8
       /\ Cardinality({ i \in 1 .. 10 : tabLines[3][i].isMeasureSeparator }) = 2

C3_Witness ==
  /\ Built
  /\ track = ExampleTrack
  /\ Len(tabLines[3]) = 10
  /\ tabLines[1][3].fret = "-"

C5_NoMeasuresIsNoError ==
  (pc = "done" /\ (~track.hasMeasures \/ Len(track.measures) = 0)) =>
    (outcome = "no_measures" /\ view.rows = <<>>)

\* C6: wrapped layout of the lines of a track with N measures has ceil(N / k)
\* rows, for every selectable k and for N = 0 as well.
C6_WrappedRowCount ==
  /\ Built =>
       \A k \in MeasuresPerRowOptions :
         Len(WrappedRows(tabLines, Len(tabLines), k)) = CeilDiv(NumMeasures, k)
  /\ (Wrapped /\ pc = "done") => Len(view.rows) = CeilDiv(NumMeasures, measuresPerRow)

C6_Witness ==
  /\ Wrapped
  /\ pc = "done"
  /\ NumMeasures = 9
  /\ measuresPerRow = 4
  /\ Len(view.rows) = 3

\* C7: in wrapped layout every row but the last carries k measure labels and
\* the last carries N mod k, or k when k divides N.
C7_LabelsPerRow ==
  (Wrapped /\ pc = "done") =>
    /\ Len(view.measureLabels) = Len(view.rows)
    /\ \A r \in 1 .. Len(view.rows) :
         Len(view.measureLabels[r]) =
           IF r < Len(view.rows) \/ NumMeasures % measuresPerRow = 0
           THEN measuresPerRow
           ELSE NumMeasures % measuresPerRow

C7_Witness ==
  /\ Wrapped
  /\ pc = "done"
  /\ NumMeasures = 9
  /\ measuresPerRow = 2
  /\ Len(view.measureLabels) = 5
  /\ Len(view.measureLabels[4]) = 2
  /\ Len(view.measureLabels[5]) = 1

\* C8: the wrapped measure labels, read row by row, are 1, 2, ..., N.
C8_GlobalNumbering ==
  (Wrapped /\ pc = "done") => Flatten(view.measureLabels) = OneTo(NumMeasures)

C8_Witness ==
  /\ Wrapped
  /\ pc = "done"
  /\ measuresPerRow = 4
  /\ NumMeasures = 9
  /\ view.measureLabels = <<(<<1, 2, 3, 4>>), (<<5, 6, 7, 8>>), (<<9>>)>>

\* C9: horizontal layout shows the labels 1..N in order, one for each
\* separator of string 0.
C9_HorizontalLabels ==
  (Horizontal /\ pc = "done") =>
    /\ view.measureLabels = <<OneTo(NumMeasures)>>
    /\ Len(view.measureLabels[1]) = Cardinality(SeparatorIndices(tabLines[1]))

C9_Witness ==
  /\ Horizontal
  /\ pc = "done"
  /\ NumMeasures = 3
  /\ view.measureLabels = <<(<<1, 2, 3>>)>>

\* C10: no bracket is rendered at a cell of a string other than string 0, in
\* either mode, whatever tuplets the other strings carry.
C10_BracketsOnlyOnStringZero ==
  outcome = "tablature" =>
    \A r \in 1 .. Len(view.brackets) : \A p \in view.brackets[r] : p[1] = 0

C10_Witness ==
  /\ outcome = "tablature"
  /\ viewMode = "wrapped"
  /\ Len(tabLines) = 2
  /\ Len(tabLines[2]) >= 3
  /\ tabLines[2][2].tuplet = <<2, 3>>
  /\ tabLines[2][3].tuplet = <<2, 3>>
  /\ tabLines[1][2].tuplet = <<3, 2>>
  /\ <<0, 0>> \in view.brackets[1]

\* C11: a bracket is rendered at a cell only if that cell and the next
\* enters - 1 cells of string 0 in the same row exist, are no separators and
\* carry the cell's own (enters, times); a shorter run gets no bracket.
C11_BracketNeedsCompleteRun ==
  outcome = "tablature" =>
    \A r \in 1 .. Len(view.brackets) : \A p \in view.brackets[r] :
      LET cell == view.rows[r][p[1] + 1][p[2] + 1]
          line0 == view.rows[r][1]
      IN /\ cell.tuplet # NoTuplet
         /\ p[2] + cell.tuplet[1] <= Len(line0)
         /\ \A j \in 1 .. cell.tuplet[1] :
              /\ ~line0[p[2] + j].isMeasureSeparator
              /\ line0[p[2] + j].tuplet = cell.tuplet

C11_Witness ==
  /\ outcome = "tablature"
  /\ viewMode = "wrapped"
  /\ Len(tabLines[1]) = 4
  /\ tabLines[1][1].tuplet = <<2, 3>>
  /\ tabLines[1][2].tuplet = <<2, 3>>
  /\ tabLines[1][3].tuplet = <<3, 2>>
  /\ tabLines[1][4].tuplet = <<3, 2>>
  /\ view.brackets = <<{<<0, 0>>}>>

\* C12 (as stated): for every integer p in [0,127],
\* noteNameToMidi(midiToNoteName(p)) = p.
C12_RoundTrip ==
  (conv.stage = "parsed" /\ conv.pitch \in 0 .. MidiMax) =>
    (conv.parsed.ok /\ conv.parsed.midi = conv.pitch)

\* the text of a pitch: sharp-spelled name of pitch class c, then the octave o
PitchText(c, o) == SharpNames[c + 1] \o NumberToText(o)

\* the c and o with p = 12 * (o + 1) + c and c in 0 .. 11
IsNameOf(t, p) ==
  \E c \in 0 .. 11 : \E o \in (0 - 4) .. 12 :
    /\ p = 12 * (o + 1) + c
    /\ t = PitchText(c, o)

\* C13: midiToNoteName(p) is the sharp-spelled pitch-class name of p mod 12
\* followed by the octave number floor(p / 12) - 1, for every integer p; the
\* string labels are this function applied to the tuning values in tuning
\* order, so 64,59,55,50,45,40 give E4,B3,G3,D3,A2,E2.
C13_NamesAndLabels ==
  /\ conv.stage \in {"named", "parsed"} => IsNameOf(conv.name, conv.pitch)
  /\ outcome = "tablature" =>
       /\ Len(view.stringNames) = Len(stringMidiValues.values)
       /\ \A s \in 1 .. Len(view.stringNames) :
            IsNameOf(view.stringNames[s], stringMidiValues.values[s])
       /\ stringMidiValues.values = StandardTuning =>
            view.stringNames =
              << <<"E", "4">>, <<"B", "3">>, <<"G", "3">>, <<"D", "3">>, <<"A", "2">>, <<"E", "2">> >>

C13_Witness ==
  /\ conv.stage = "named"
  /\ conv.pitch = 61
  /\ conv.name = <<"C", "#", "4">>
  /\ viewMode = "wrapped"
  /\ view.stringNames =
       << <<"E", "4">>, <<"B", "3">>, <<"G", "3">>, <<"D", "3">>, <<"A", "2">>, <<"E", "2">> >>

C15_LabelAtSeparatorIndex ==
  (outcome = "tablature" /\ viewMode = "horizontal") =>
    /\ Len(view.labelOffsets) = Len(MeasurePositions(tabLines))
    /\ \A i \in 1 .. Len(view.labelOffsets) :
         view.labelOffsets[i] = CellWidth * MeasurePositions(tabLines)[i]

\* cells a .. b (1-based) of a line are a maximal run sharing one tuplet
IsMaximalRun(line, a, b) ==
  /\ line[a].tuplet # NoTuplet
  /\ \A j \in a .. b : ~line[j].isMeasureSeparator /\ line[j].tuplet = line[a].tuplet
  /\ a > 1 => (line[a - 1].isMeasureSeparator \/ line[a - 1].tuplet # line[a].tuplet)
  /\ b < Len(line) => (line[b + 1].isMeasureSeparator \/ line[b + 1].tuplet # line[a].tuplet)

\* C16 (as stated): the bracket spans of a row never overlap: a contiguous run
\* of L string-0 cells sharing the same (enters, times) yields exactly
\* floor(L / enters) spans, each of width enters.
C16_BracketsDoNotOverlap ==
  outcome = "tablature" =>
    \A r \in 1 .. Len(view.rows) :
      LET line0 == view.rows[r][1]
          starts == { p[2] + 1 : p \in view.brackets[r] }
      IN /\ \A x \in starts : \A y \in starts : x < y => y - x >= line0[x].tuplet[1]
         /\ \A a \in 1 .. Len(line0) : \A b \in a .. Len(line0) :
              IsMaximalRun(line0, a, b) =>
                Cardinality({ x \in starts : a <= x /\ x <= b }) = (b - a + 1) \div line0[a].tuplet[1]

\* all notes of the beat's voices, in voice order and in note order within a voice
RECURSIVE NotesInVoiceOrder(_, _)
NotesInVoiceOrder(voices, v) ==
  IF v > Len(voices) THEN <<>>
  ELSE (IF voices[v].hasNotes THEN voices[v].notes ELSE <<>>) \o NotesInVoiceOrder(voices, v + 1)

\* index of the first note of ns on string sn, 0 if there is none
FirstOnString(ns, sn) ==
  IF \E i \in 1 .. Len(ns) : ns[i].string = sn
  THEN CHOOSE i \in 1 .. Len(ns) : ns[i].string = sn /\ \A j \in 1 .. i - 1 : ns[j].string # sn
  ELSE 0

\* the beat behind cell i (1-based) of a line, for a cell that is no separator
RECURSIVE BeatOfCell(_, _)
BeatOfCell(i, m) ==
  IF i <= BeatCount(track.measures[m]) THEN track.measures[m].beats[i]
  ELSE BeatOfCell(i - BeatCount(track.measures[m]) - 1, m + 1)

\* C17: for each beat and each string index s, the Note cell on line s is
\* built from the first note with string number s + 1 found when scanning the
\* beat's voices in voice order (notes in order within a voice); a matching
\* note in a later voice never overrides one found in an earlier voice.
C17_FirstVoiceWins ==
  (Built /\ variant = "voices") =>
    \A s \in 1 .. Len(tabLines) : \A i \in 1 .. Len(tabLines[s]) :
      (~tabLines[s][i].isMeasureSeparator /\ tabLines[s][i].fret # "-") =>
        LET beat == BeatOfCell(i, 1)
            ns == NotesInVoiceOrder(IF beat.hasVoices THEN beat.voices ELSE <<>>, 1)
        IN /\ FirstOnString(ns, s) # 0
           /\ tabLines[s][i].fret = ns[FirstOnString(ns, s)].fret

C17_Witness ==
  /\ Built
  /\ variant = "voices"
  /\ Len(tabLines) >= 2
  /\ \E i \in 1 .. Len(tabLines[2]) :
       /\ ~tabLines[2][i].isMeasureSeparator
       /\ tabLines[2][i].fret = "3"
       /\ BeatOfCell(i, 1) = BeatKinds[3]
       /\ tabLines[1][i].fret = "7"

\* cell i (1-based) of line s is a cell pushed for a beat, not a separator
IsBeatCell(s, i) == ~tabLines[s][i].isMeasureSeparator

\* C18 (as stated): buildTabLines emits a Note cell on line s whenever the beat
\* holds a note with string number s + 1, both when the beat exposes its notes
\* as a flat notes[] list and when it exposes them under voices[].notes[].
C18_NoteCellForEitherShape ==
  Built =>
    \A s \in 1 .. Len(tabLines) : \A i \in 1 .. Len(tabLines[s]) :
      (IsBeatCell(s, i) /\ HasAnyNote(BeatOfCell(i, 1), s)) => tabLines[s][i].fret # "-"

\* C19 (as stated): the duration of a Note cell is the note's own duration
\* whenever the note specifies one, and the beat's duration only when the note
\* specifies none.
C19_NoteDurationWins ==
  Built =>
    \A s \in 1 .. Len(tabLines) : \A i \in 1 .. Len(tabLines[s]) :
      (IsBeatCell(s, i) /\ FindNote(variant, BeatOfCell(i, 1), s).found) =>
        LET n == FindNote(variant, BeatOfCell(i, 1), s).note
        IN tabLines[s][i].duration =
             IF n.duration # "" THEN n.duration ELSE BeatOfCell(i, 1).duration

\* C20 (as stated): a Note cell built from a note carrying tuplet (enters,
\* times) carries that same pair, and enters consecutive cells of string 0
\* built from such notes get a bracket at the first of them.
C20_TupletCarried ==
  Built =>
    /\ \A s \in 1 .. Len(tabLines) : \A i \in 1 .. Len(tabLines[s]) :
         (IsBeatCell(s, i) /\ FindNote(variant, BeatOfCell(i, 1), s).found) =>
           tabLines[s][i].tuplet = FindNote(variant, BeatOfCell(i, 1), s).note.tuplet
    /\ (outcome = "tablature" /\ viewMode = "horizontal") =>
         \A i \in 1 .. Len(tabLines[1]) :
           (/\ IsBeatCell(1, i)
            /\ FindNote(variant, BeatOfCell(i, 1), 1).found
            /\ FindNote(variant, BeatOfCell(i, 1), 1).note.tuplet # NoTuplet
            /\ LET t == FindNote(variant, BeatOfCell(i, 1), 1).note.tuplet
               IN /\ i + t[1] - 1 <= Len(tabLines[1])
                  /\ \A j \in i .. i + t[1] - 1 :
                       /\ IsBeatCell(1, j)
                       /\ FindNote(variant, BeatOfCell(j, 1), 1).found
                       /\ FindNote(variant, BeatOfCell(j, 1), 1).note.tuplet = t)
           => <<0, i - 1>> \in view.brackets[1]

\* C23 (as stated): buildTabLines returns exactly stringCount lines, where
\* stringCount is the track's explicit string count whenever that field is
\* present, and 6 only when the field is absent.
C23_ExplicitStringCount ==
  Built =>
    Len(tabLines) = IF track.hasStrings THEN track.strings
                    ELSE IF track.hasStringCount THEN track.string_count
                    ELSE 6

\* what is drawn for each string, the rows put one after the other
DisplayOfString(s) == Flatten([r \in 1 .. Len(view.display) |-> view.display[r][s]])

\* C21 (as stated): a Rest cell built from a beat with duration d carries
\* duration d, and the renderer shows the duration symbol of d under that
\* Rest cell, as it does under a Note cell.
C21_RestShowsDuration ==
  (Built /\ outcome = "tablature") =>
    \A s \in 1 .. Len(tabLines) : \A i \in 1 .. Len(tabLines[s]) :
      (IsBeatCell(s, i) /\ ~FindNote(variant, BeatOfCell(i, 1), s).found
         /\ BeatOfCell(i, 1).duration # "") =>
        /\ tabLines[s][i].duration = BeatOfCell(i, 1).duration
        /\ DisplayOfString(s)[i].durationSymbol = getDurationSymbol(BeatOfCell(i, 1).duration)

\* C22: every cell of every line is exactly one of MeasureSeparator, Note or
\* Rest; for every integer fret (fret 0 included) a cell is drawn as a Note
\* with its fret iff it was built from a note found for that string in that
\* beat, and as the neutral Rest placeholder iff no note was found; separators
\* are drawn as dividers only.
C22_CellKinds ==
  (Built /\ outcome = "tablature") =>
    \A s \in 1 .. Len(tabLines) :
      /\ Len(DisplayOfString(s)) = Len(tabLines[s])
      /\ \A i \in 1 .. Len(tabLines[s]) :
           LET shown == DisplayOfString(s)[i]
           IN IF i - 1 \in { ExpectedSeparatorIndex(m) : m \in 1 .. NumMeasures }
              THEN shown.kind = "divider"
              ELSE LET f == FindNote(variant, BeatOfCell(i, 1), s)
                   IN /\ shown.kind \in {"note", "rest"}
                      /\ shown.kind = "note" <=> f.found
                      /\ f.found => shown.fret = f.note.fret

C22_Witness ==
  /\ Built
  /\ outcome = "tablature"
  /\ viewMode = "wrapped"
  /\ Len(view.display) >= 2
  /\ Len(view.display[1]) >= 2
  /\ \E i \in 1 .. Len(view.display[1][1]) :
       /\ IsBeatCell(1, i)
       /\ BeatOfCell(i, 1) = BeatKinds[2]
       /\ view.display[1][1][i] = [kind |-> "note", fret |-> "0", durationSymbol |-> "quarter note"]
       /\ view.display[1][2][i].kind = "rest"
  /\ view.display[1][1][Len(view.display[1][1])].kind = "divider"

\* C24 (as stated): in the text TablatureView, when both stringNames and
\* stringMidiValues are provided the labels are stringNames; labels derived
\* from stringMidiValues are used only when stringNames is not provided, and
\* never in place of supplied stringNames whose count differs from
\* tabLines.length.
C24_SuppliedNamesNeverReplaced ==
  (textView.stage = "rendered" /\ textView.out.rendered /\ textView.props.stringNames.given) =>
    textView.out.labels = textView.props.stringNames.values

\* number of string-0 cells in the rows before row r (1-based) of a view
RECURSIVE RowStartOffset(_, _)
RowStartOffset(v, r) == IF r = 1 THEN 0 ELSE RowStartOffset(v, r - 1) + Len(v.rows[r - 1][1])

\* the bracket starts of a view at their index in the unwrapped line
GlobalBrackets(v) ==
  UNION { { <<p[1], RowStartOffset(v, r) + p[2]>> : p \in v.brackets[r] } :
          r \in 1 .. Len(v.brackets) }

CellsOfString(s) == Flatten([r \in 1 .. Len(view.rows) |-> view.rows[r][s]])

\* number of separators in a line
SeparatorCount(line) == Cardinality(SeparatorIndices(line))

\* C26: in wrapped mode, for each string, the cells of all rows in row order
\* are exactly the input line: no cell is dropped, duplicated or reordered, and
\* the cells after the last row-closing separator form a final row.
C26_RowsConcatenateToLines ==
  Wrapped => \A s \in 1 .. Len(tabLines) : CellsOfString(s) = tabLines[s]

C26_Witness ==
  /\ Wrapped
  /\ pc = "done"
  /\ measuresPerRow = 2
  /\ Len(view.rows) = 3
  /\ SeparatorCount(view.rows[3][1]) = 1
  /\ Len(view.rows[3][1]) > 1
  /\ CellsOfString(1) = tabLines[1]

\* C27: in wrapped mode with measuresPerRow = k over lockstep lines, every row
\* but possibly the last holds exactly k separators on string 0 and ends with
\* a separator, no row is empty, and within a row all strings have the same
\* number of cells.
C27_RowShape ==
  Wrapped =>
    \A r \in 1 .. Len(view.rows) :
      /\ Len(view.rows[r][1]) > 0
      /\ \A s \in 1 .. Len(view.rows[r]) : Len(view.rows[r][s]) = Len(view.rows[r][1])
      /\ r < Len(view.rows) =>
           /\ SeparatorCount(view.rows[r][1]) = measuresPerRow
           /\ view.rows[r][1][Len(view.rows[r][1])].isMeasureSeparator

C27_Witness ==
  /\ Wrapped
  /\ pc = "done"
  /\ measuresPerRow = 4
  /\ Len(view.rows) = 2
  /\ Len(view.rows[1]) >= 2
  /\ Len(view.rows[1][1]) > 4
  /\ SeparatorCount(view.rows[2][1]) < 4

\* C28 (as stated): when a track has no measures and its tuning is also
\* missing or mismatched in count, StringsView reports the no-measures state
\* and not the tuning error; the tuning error is reported only for tracks with
\* at least one measure.
C28_NoMeasuresBeforeTuningError ==
  /\ (pc = "done" /\ (~track.hasMeasures \/ Len(track.measures) = 0)
        /\ ~stringMidiValues.defined) => outcome = "no_measures"
  /\ outcome = "tuning_error" => (track.hasMeasures /\ Len(track.measures) >= 1)

\* C29: TablatureView starts in horizontal mode with measuresPerRow = 4; a
\* toggle switches between horizontal and wrapped and leaves measuresPerRow
\* unchanged, a selection leaves the mode unchanged; measuresPerRow is always
\* one of 2, 4, 6, 8, and what is rendered is the layout of (lines, mode,
\* measuresPerRow).
C29_ModeAndMeasuresPerRow ==
  /\ viewMode = "horizontal"
  /\ measuresPerRow = 4
  /\ [][ /\ measuresPerRow' \in {2, 4, 6, 8}
         /\ viewMode' \in {"horizontal", "wrapped"}
         /\ viewMode' # viewMode => measuresPerRow' = measuresPerRow
         /\ measuresPerRow' # measuresPerRow => viewMode' = viewMode
         /\ outcome' = "tablature" =>
              view'.rows = IF viewMode' = "horizontal"
                           THEN <<HorizontalRow(tabLines', Len(tabLines'))>>
                           ELSE WrappedRows(tabLines', Len(tabLines'), measuresPerRow') ]_vars

C29_Witness ==
  /\ pc = "props"
  /\ outcome = "tablature"
  /\ viewMode = "horizontal"
  /\ measuresPerRow = 6
  /\ Len(tabLines[1]) = MaxCells
  /\ Len(view.rows) = 1

\* some note of the beat, in any voice or in the flat list, has string number
\* sn and fret f
HasNoteWithFret(beat, sn, f) ==
  \/ \E v \in 1 .. Len(beat.voices) : \E n \in 1 .. Len(beat.voices[v].notes) :
       beat.voices[v].notes[n].string = sn /\ beat.voices[v].notes[n].fret = f
  \/ \E n \in 1 .. Len(beat.notes) : beat.notes[n].string = sn /\ beat.notes[n].fret = f

\* C30: a note whose string number lies outside 1..stringCount produces no
\* cell on any line and changes no line's length; every Note cell at a
\* position of line s (0-based) comes from a note with string number s + 1 of
\* the beat at that position.
C30_OutOfRangeNotesIgnored ==
  Built =>
    /\ Len(tabLines) = StringCount(track)
    /\ \A s \in 1 .. Len(tabLines) :
         /\ Len(tabLines[s]) = BeatsUpTo(NumMeasures) + NumMeasures
         /\ \A i \in 1 .. Len(tabLines[s]) :
              (IsBeatCell(s, i) /\ tabLines[s][i].fret # "-") =>
                HasNoteWithFret(BeatOfCell(i, 1), s, tabLines[s][i].fret)

C30_Witness ==
  /\ Built
  /\ Len(tabLines) = 6
  /\ \E i \in 1 .. Len(tabLines[1]) :
       /\ IsBeatCell(1, i)
       /\ BeatOfCell(i, 1) = BeatKinds[5]
       /\ \A s \in 1 .. 6 : tabLines[s][i].fret = "-"

====
